---- MODULE Spec2Model ----
(***************************************************************************)
(* Selection, scoring and wizard model of the AFS assessment creator:      *)
(* static/src/js/create/helpers.js (the engine) and                        *)
(* static/src/js/create/create.js (the full-flow wizard).                  *)
(*                                                                         *)
(* Conventions                                                             *)
(*  - A JS object used as a map is a TLA+ function whose DOMAIN is the set *)
(*    of keys present; reading an absent key gives undefined (falsy).      *)
(*  - A tri-state answer is one of the strings "true", "false", "null".    *)
(*  - A score is an integer number of hundredths (2.50 is 250). Numbers    *)
(*    are exact rationals here; the binary representation error of a JS    *)
(*    double shows only in the direction toFixed(2) rounds an exact .xx5   *)
(*    tie, which is left open (tieRoundsUp).                               *)
(***************************************************************************)
EXTENDS Integers, Sequences, FiniteSets, TLC

VARIABLES
    config,          \* create.js:36   parsed configuration document
    selectionState,  \* create.js:37   { domains: { [domId]: { selected, areas } } }
    answersByArea,   \* create.js:38   { [areaId]: [true|false|null, ...] }
    orgInfo,         \* create.js:39   organisation info object
    currentStep,     \* create.js:42   'org' | 'select' | 'runner' | 'report'
    storage,         \* localStorage: key -> stored text, absent keys not in DOMAIN
    domainCheckbox,  \* DOM: checked state of each rendered .domain-checkbox
    startDisabled,   \* DOM: startAssessmentBtn.disabled
    writeFailures,   \* number of localStorage.setItem and removeItem calls
                     \* that have thrown
    report,          \* create.js:555-566 what renderReport computed: the
                     \* selectedDomains its handlers closed over and the scores
    payload,         \* create.js:672 body of the POST that is under way
    stats,           \* create.js:429-439 what setStats() last wrote: the
                     \* answered count, the total and the progress percentage
    submitStatus,    \* where submitToServer stands: "idle" | "pending" |
                     \* "redirecting" | "redirected"
    tieRoundsUp,     \* whether a double standing for an exact .xx5 tie is one
                     \* toFixed(2) rounds up (its representation error decides)
    lastEvent,       \* name of the handler / function that ran last
    input,           \* arguments a function under test was called with
    output           \* what the function under test returned

vars == <<config, selectionState, answersByArea, orgInfo, currentStep, storage,
          domainCheckbox, startDisabled, writeFailures, report, payload,
          stats, submitStatus, tieRoundsUp, lastEvent, input, output>>

reportVars == <<report, payload, submitStatus>>

wizardVars == <<orgInfo, currentStep, storage, domainCheckbox, startDisabled,
                writeFailures, reportVars, stats>>

-----------------------------------------------------------------------------
(* Bounds of the model *)

\* longest recorded answer sequence drawn as an input of the scoring functions
MaxAnswers == 2

\* number of successive validateSelection calls on one selection state
MaxCalls == 2

\* number of localStorage.setItem calls that throw in one run of the wizard
MaxWriteFailures == 1

-----------------------------------------------------------------------------
(* Configuration documents: { domains: [ { id, areas: [ { id, questions } ] } ] } *)

Question == [text |-> "q"]

Area(id, n) == [id |-> id, questions |-> [i \in 1..n |-> Question]]

Domain(id, areas) == [id |-> id, areas |-> areas]

ConfigTwoDomains ==
    [domains |-> << Domain("d1", <<Area("a1", 2), Area("a2", 3)>>),
                    Domain("d2", <<Area("a3", 1)>>) >>]

ConfigEmptyDomain ==
    [domains |-> << Domain("d1", <<>>),
                    Domain("d2", <<Area("a1", 2), Area("a2", 1)>>) >>]

ConfigNoQuestions ==
    [domains |-> << Domain("d1", <<Area("a1", 0), Area("a2", 1)>>) >>]

ConfigNoDomains == [domains |-> <<>>]

\* domain ids are unique, the area id a1 is used by both domains
ConfigSharedAreaId ==
    [domains |-> << Domain("d1", <<Area("a1", 1)>>),
                    Domain("d2", <<Area("a1", 1), Area("a2", 1)>>) >>]

Configs ==
    {ConfigTwoDomains, ConfigEmptyDomain, ConfigNoQuestions, ConfigNoDomains,
     ConfigSharedAreaId}

Range(seq) == {seq[i] : i \in 1..Len(seq)}

DomainIds(cfg) == {d.id : d \in Range(cfg.domains)}

AreaIdsOf(domain) == {a.id : a \in Range(domain.areas)}

AllAreaIds(cfg) == UNION {AreaIdsOf(d) : d \in Range(cfg.domains)}

DomainById(cfg, id) == CHOOSE d \in Range(cfg.domains) : d.id = id

\* all maps from some of the keys to the values
PartialMaps(keys, values) == UNION {[K -> values] : K \in SUBSET keys}

\* every selection state over the ids of cfg: a domain entry may be missing,
\* an area flag may be missing, and selected is independent of the flags
SelectionStates(cfg) ==
    { [domains |-> m] :
        m \in { f \in PartialMaps(DomainIds(cfg),
                    UNION { [selected : BOOLEAN,
                             areas : PartialMaps(AreaIdsOf(d), BOOLEAN)]
                            : d \in Range(cfg.domains) }) :
                \A id \in DOMAIN f :
                    DOMAIN f[id].areas \subseteq AreaIdsOf(DomainById(cfg, id)) } }

-----------------------------------------------------------------------------
(* helpers.js *)

\* dom.areas[a] as a JS truth value
Flag(dom, a) == a \in DOMAIN dom.areas /\ dom.areas[a]

\* Object.values(dom.areas).filter(Boolean).length
areaCount(dom) == Cardinality({a \in DOMAIN dom.areas : dom.areas[a]})

RECURSIVE SumAreaCounts(_, _)
SumAreaCounts(domains, ids) ==
    IF ids = {} THEN 0
    ELSE LET id == CHOOSE x \in ids : TRUE
         IN areaCount(domains[id]) + SumAreaCounts(domains, ids \ {id})

\* mutants of validateSelection
validateSelectionNoFix(s) ==
    [ret |-> SumAreaCounts(s.domains, DOMAIN s.domains) > 0, state |-> s]

validateSelectionSelectedOnly(s) ==
    LET fixed == [id \in DOMAIN s.domains |->
                    IF s.domains[id].selected /\ areaCount(s.domains[id]) = 0
                    THEN [s.domains[id] EXCEPT !.selected = FALSE]
                    ELSE s.domains[id]]
        counted == {id \in DOMAIN s.domains : s.domains[id].selected}
    IN [ret |-> SumAreaCounts(s.domains, counted) > 0,
        state |-> [domains |-> fixed]]

validateSelectionToggle(s) ==
    LET fixed == [id \in DOMAIN s.domains |->
                    IF areaCount(s.domains[id]) = 0
                    THEN [s.domains[id] EXCEPT !.selected = ~s.domains[id].selected]
                    ELSE s.domains[id]]
    IN [ret |-> SumAreaCounts(s.domains, DOMAIN s.domains) > 0,
        state |-> [domains |-> fixed]]

validateSelectionBothWays(s) ==
    LET fixed == [id \in DOMAIN s.domains |->
                    [s.domains[id] EXCEPT !.selected = areaCount(s.domains[id]) > 0]]
    IN [ret |-> SumAreaCounts(s.domains, DOMAIN s.domains) > 0,
        state |-> [domains |-> fixed]]

\* validateSelection(selectionState): ret is the returned boolean, state the
\* selection state as the call leaves it (the repair is done in place)
validateSelection(s) ==
    LET fixed == [id \in DOMAIN s.domains |->
                    IF s.domains[id].selected /\ areaCount(s.domains[id]) = 0
                    THEN [s.domains[id] EXCEPT !.selected = FALSE]
                    ELSE s.domains[id]]
        total == SumAreaCounts(s.domains, DOMAIN s.domains)
    IN [ret |-> total > 0, state |-> [domains |-> fixed]]

\* domain.areas.filter(a => domSel.areas[a.id])
selectedAreasOf(domain, domSel) ==
    SelectSeq(domain.areas, LAMBDA a : Flag(domSel, a.id))

\* mutants of getSelectedDomainsFrom
RECURSIVE getSelectedDomainsKeepEmpty(_, _, _)
getSelectedDomainsKeepEmpty(cfg, sel, i) ==
    IF i > Len(cfg.domains) THEN <<>>
    ELSE LET domain == cfg.domains[i]
             rest   == getSelectedDomainsKeepEmpty(cfg, sel, i + 1)
         IN IF domain.id \notin DOMAIN sel.domains THEN rest
            ELSE <<[domain EXCEPT
                      !.areas = selectedAreasOf(domain, sel.domains[domain.id])]>>
                 \o rest

RECURSIVE getSelectedDomainsIfSelected(_, _, _)
getSelectedDomainsIfSelected(cfg, sel, i) ==
    IF i > Len(cfg.domains) THEN <<>>
    ELSE LET domain == cfg.domains[i]
             rest   == getSelectedDomainsIfSelected(cfg, sel, i + 1)
         IN IF domain.id \notin DOMAIN sel.domains THEN rest
            ELSE IF ~sel.domains[domain.id].selected THEN rest
            ELSE LET selectedAreas ==
                        selectedAreasOf(domain, sel.domains[domain.id])
                 IN IF Len(selectedAreas) > 0
                    THEN <<[domain EXCEPT !.areas = selectedAreas]>> \o rest
                    ELSE rest

\* the loop of getSelectedDomains from the i-th domain of the configuration on
RECURSIVE getSelectedDomainsFrom(_, _, _)
getSelectedDomainsFrom(cfg, sel, i) ==
    IF i > Len(cfg.domains) THEN <<>>
    ELSE LET domain == cfg.domains[i]
             rest   == getSelectedDomainsFrom(cfg, sel, i + 1)
         IN IF domain.id \notin DOMAIN sel.domains THEN rest
            ELSE LET selectedAreas ==
                        selectedAreasOf(domain, sel.domains[domain.id])
                 IN IF Len(selectedAreas) > 0
                    THEN <<[domain EXCEPT !.areas = selectedAreas]>> \o rest
                    ELSE rest

getSelectedDomains(cfg, sel) == getSelectedDomainsFrom(cfg, sel, 1)

\* mutant of getSelectedDomainsEffect: `domain.areas = selectedAreas`, the
\* filtered list is put into the domain of the configuration itself
getSelectedDomainsEffectInPlace(cfg, sel) ==
    [config |-> [domains |-> [i \in 1..Len(cfg.domains) |->
                    IF cfg.domains[i].id \notin DOMAIN sel.domains
                    THEN cfg.domains[i]
                    ELSE [cfg.domains[i] EXCEPT !.areas =
                            selectedAreasOf(cfg.domains[i],
                                            sel.domains[cfg.domains[i].id])]]],
     selectionState |-> sel]

\* what the objects getSelectedDomains was given hold once it has returned:
\* filter() builds a new array and `{ ...domain, areas: selectedAreas }` a
\* new object, neither argument is assigned to
getSelectedDomainsEffect(cfg, sel) == [config |-> cfg, selectionState |-> sel]

\* Boolean(v) for a tri-state answer: only true is truthy
Boolean(v) == v = "true"

Min(a, b) == IF a < b THEN a ELSE b

Max(a, b) == IF a > b THEN a ELSE b

\* +(x).toFixed(2) for x = n / d hundredths, n >= 0, d > 0: the integer number
\* of hundredths nearest to x. toFixed takes the larger of two equally near
\* ones, but the double that stands for an exact .xx5 tie lies on it, above it
\* or below it (0.625 gives 0.63, 0.835 gives 0.83): tieRoundsUp says which.
toFixed2(n, d) ==
    IF (2 * n) % (2 * d) = d
    THEN IF tieRoundsUp THEN (2 * n + d) \div (2 * d) ELSE (2 * n - d) \div (2 * d)
    ELSE (2 * n + d) \div (2 * d)

\* mutant of calculateAreaScore: unanswered entries are left out of the total
calculateAreaScoreAnsweredOnly(areaAnswers) ==
    LET yesCount == Len(SelectSeq(areaAnswers, Boolean))
        answered == Len(SelectSeq(areaAnswers, LAMBDA v : v # "null"))
        total    == IF answered = 0 THEN 1 ELSE answered
    IN toFixed2(500 * Max(0, Min(total, yesCount)), total)

calculateAreaScore(areaAnswers) ==
    LET yesCount == Len(SelectSeq(areaAnswers, Boolean))
        total    == IF Len(areaAnswers) = 0 THEN 1 ELSE Len(areaAnswers)
        \* normalized = Math.max(0, Math.min(1, yesCount / total)), as a
        \* numerator over total
        normalized == Max(0, Min(total, yesCount))
    IN toFixed2(500 * normalized, total)

\* answersByArea[area.id] || []
answersOrEmpty(answers, areaId) ==
    IF areaId \in DOMAIN answers THEN answers[areaId] ELSE <<>>

\* mutant of domainScoreLoop: an area with no recorded answers is skipped
RECURSIVE domainScoreLoopSkipUnanswered(_, _, _)
domainScoreLoopSkipUnanswered(domainAreas, answers, i) ==
    IF i > Len(domainAreas) THEN [sum |-> 0, count |-> 0]
    ELSE LET area == domainAreas[i]
             arr  == answersOrEmpty(answers, area.id)
             rest == domainScoreLoopSkipUnanswered(domainAreas, answers, i + 1)
         IN IF Len(arr) = 0 /\ Len(area.questions) > 0
            THEN rest
            ELSE [sum |-> calculateAreaScore(arr) + rest.sum,
                  count |-> 1 + rest.count]

\* the loop of calculateDomainScore from the i-th area on: sum and count
RECURSIVE domainScoreLoop(_, _, _)
domainScoreLoop(domainAreas, answers, i) ==
    IF i > Len(domainAreas) THEN [sum |-> 0, count |-> 0]
    ELSE LET area == domainAreas[i]
             arr  == answersOrEmpty(answers, area.id)
             rest == domainScoreLoop(domainAreas, answers, i + 1)
         IN IF Len(arr) = 0 /\ Len(area.questions) > 0
            THEN [sum |-> 0 + rest.sum, count |-> 1 + rest.count]
            ELSE [sum |-> calculateAreaScore(arr) + rest.sum,
                  count |-> 1 + rest.count]

calculateDomainScore(domainAreas, answers) ==
    IF Len(domainAreas) = 0 THEN 0
    ELSE LET r == domainScoreLoop(domainAreas, answers, 1)
         IN IF r.count # 0 THEN toFixed2(r.sum, r.count) ELSE 0

\* mutant of overallScoreLoop: every area is one term, not every domain
RECURSIVE overallScoreLoopPerArea(_, _, _)
overallScoreLoopPerArea(selectedDomains, answers, i) ==
    IF i > Len(selectedDomains) THEN [sum |-> 0, count |-> 0]
    ELSE LET rest == overallScoreLoopPerArea(selectedDomains, answers, i + 1)
             r    == domainScoreLoop(selectedDomains[i].areas, answers, 1)
         IN [sum |-> r.sum + rest.sum, count |-> r.count + rest.count]

\* the loop of calculateOverallScore from the i-th domain on: sum and count
RECURSIVE overallScoreLoop(_, _, _)
overallScoreLoop(selectedDomains, answers, i) ==
    IF i > Len(selectedDomains) THEN [sum |-> 0, count |-> 0]
    ELSE LET rest == overallScoreLoop(selectedDomains, answers, i + 1)
         IN [sum |-> calculateDomainScore(selectedDomains[i].areas, answers)
                       + rest.sum,
             count |-> 1 + rest.count]

calculateOverallScore(selectedDomains, answers) ==
    IF Len(selectedDomains) = 0 THEN 0
    ELSE LET r == overallScoreLoop(selectedDomains, answers, 1)
         IN IF r.count # 0 THEN toFixed2(r.sum, r.count) ELSE 0

\* the last domain of the configuration with the id (a later domain of
\* the same id overwrites the entry of an earlier one)
LastDomainWithId(cfg, id) ==
    cfg.domains[CHOOSE i \in 1..Len(cfg.domains) :
                    /\ cfg.domains[i].id = id
                    /\ \A j \in (i + 1)..Len(cfg.domains) : cfg.domains[j].id # id]

\* mutant of buildDefaultSelection: the area flags start false
buildDefaultSelectionUnflagged(cfg) ==
    [domains |-> [id \in DomainIds(cfg) |->
        [selected |-> TRUE,
         areas |-> [a \in AreaIdsOf(LastDomainWithId(cfg, id)) |-> FALSE]]]]

buildDefaultSelection(cfg) ==
    [domains |-> [id \in DomainIds(cfg) |->
        [selected |-> TRUE,
         areas |-> [a \in AreaIdsOf(LastDomainWithId(cfg, id)) |-> TRUE]]]]

\* A stored text is a tuple: JSON.stringify(value) is the two-element text
\* <<"json", value>>, the empty string is the empty tuple, and a text that
\* is not JSON is a one-element tuple.
JSONstringify(value) == <<"json", value>>

EmptyText == <<>>

InvalidText == <<"{oops">>

\* whether JSON.parse(text) returns instead of throwing a SyntaxError
IsJSONText(text) == Len(text) = 2 /\ text[1] = "json"

JSONparse(text) == text[2]

\* saveLocal(key, value); ok is whether localStorage.setItem returns
\* normally; when it throws, the catch block leaves the store as it was
saveLocal(store, key, value, ok) ==
    IF ok
    THEN [k \in DOMAIN store \cup {key} |->
            IF k = key THEN JSONstringify(value) ELSE store[k]]
    ELSE store

\* what a call that lets an exception out hands to its caller
Thrown == [type |-> "exception", literal |-> "thrown"]

\* JS truthiness of the tagged values of JsonValues
Falsy(value) ==
    \/ value.type \in {"null", "undefined"}
    \/ value.type = "boolean" /\ value.literal = "false"
    \/ value.type = "number" /\ value.literal = "0"
    \/ value.type = "string" /\ value.literal = ""

\* mutant of loadLocal: `JSON.parse(v) || fallback`
loadLocalFalsyFallback(store, key, fallback, readOk) ==
    IF ~readOk \/ key \notin DOMAIN store THEN fallback
    ELSE IF store[key] = EmptyText \/ ~IsJSONText(store[key]) THEN fallback
    ELSE IF Falsy(JSONparse(store[key])) THEN fallback
    ELSE JSONparse(store[key])

\* mutant of loadLocal: no try/catch around getItem and JSON.parse
loadLocalNoCatch(store, key, fallback, readOk) ==
    IF ~readOk THEN Thrown
    ELSE IF key \notin DOMAIN store THEN fallback
    ELSE IF store[key] = EmptyText THEN fallback
    ELSE IF ~IsJSONText(store[key]) THEN Thrown
    ELSE JSONparse(store[key])

\* loadLocal(key, fallback); readOk is whether localStorage.getItem returns
\* normally. getItem gives null for an absent key; null and the empty text
\* are falsy, every other text goes to JSON.parse; any exception is caught.
loadLocal(store, key, fallback, readOk) ==
    IF ~readOk THEN fallback
    ELSE IF key \notin DOMAIN store THEN fallback
    ELSE IF store[key] = EmptyText THEN fallback
    ELSE IF ~IsJSONText(store[key]) THEN fallback
    ELSE JSONparse(store[key])

-----------------------------------------------------------------------------
(* create.js *)

LS_SELECTION == "afs_selection"
LS_ANSWERS == "afs_answers"
LS_ORGINFO == "afs_orginfo"

\* the empty JS object
EmptyObject == <<>>

\* what collectOrgInfo returns for a form that passes validateOrgForm
FilledOrgInfo == [organization_name |-> "org", email |-> "a@b.c"]

\* the .domain-checkbox elements renderSelection writes and their checked state
renderedDomainCheckboxes(cfg, sel) ==
    [id \in DomainIds(cfg) \cap DOMAIN sel.domains |-> sel.domains[id].selected]

\* change handler, .domain-checkbox branch: the selection state it leaves
domainCheckboxChange(sel, domId, checked) ==
    [sel EXCEPT !.domains[domId] =
        [selected |-> checked,
         areas |-> [a \in DOMAIN sel.domains[domId].areas |-> checked]]]

\* mutant of areaCheckboxChange: the domain's selected flag is not recomputed
areaCheckboxChangeNoSync(sel, domId, areaId, checked) ==
    LET old == sel.domains[domId].areas
        new == [a \in DOMAIN old \cup {areaId} |->
                  IF a = areaId THEN checked ELSE old[a]]
    IN [sel EXCEPT !.domains[domId] = [@ EXCEPT !.areas = new]]

\* change handler, .area-checkbox branch: the selection state it leaves
areaCheckboxChange(sel, domId, areaId, checked) ==
    LET old == sel.domains[domId].areas
        new == [a \in DOMAIN old \cup {areaId} |->
                  IF a = areaId THEN checked ELSE old[a]]
        anyAreaSelected == \E a \in DOMAIN new : new[a]
    IN [sel EXCEPT !.domains[domId] =
            [selected |-> anyAreaSelected, areas |-> new]]

\* btnDeselectAll: the selection state it builds
deselectAll(cfg) ==
    [domains |-> [id \in DomainIds(cfg) |->
        [selected |-> FALSE,
         areas |-> [a \in AreaIdsOf(LastDomainWithId(cfg, id)) |-> FALSE]]]]

\* mutant of lazyInitAreas: the entry is made anew at every render
RECURSIVE lazyInitAreasAlways(_, _, _)
lazyInitAreasAlways(areas, answers, i) ==
    IF i > Len(areas) THEN answers
    ELSE LET area == areas[i]
             next == [k \in DOMAIN answers \cup {area.id} |->
                        IF k = area.id
                        THEN [q \in 1..Len(area.questions) |-> "null"]
                        ELSE answers[k]]
         IN lazyInitAreasAlways(areas, next, i + 1)

\* renderRunner, lazy initialisation: an all-null entry for every area of
\* selectedDomains that has no entry yet
RECURSIVE lazyInitAreas(_, _, _)
lazyInitAreas(areas, answers, i) ==
    IF i > Len(areas) THEN answers
    ELSE LET area == areas[i]
             next == IF area.id \in DOMAIN answers THEN answers
                     ELSE [k \in DOMAIN answers \cup {area.id} |->
                            IF k = area.id
                            THEN [q \in 1..Len(area.questions) |-> "null"]
                            ELSE answers[k]]
         IN lazyInitAreas(areas, next, i + 1)

RECURSIVE lazyInit(_, _, _)
lazyInit(selectedDomains, answers, i) ==
    IF i > Len(selectedDomains) THEN answers
    ELSE lazyInit(selectedDomains,
                  lazyInitAreas(selectedDomains[i].areas, answers, 1), i + 1)

\* mutant of renderReport: the scores are taken over config.domains
renderReportAllDomains(cfg, sel, answers) ==
    [selectedDomains |-> getSelectedDomains(cfg, sel),
     overall |-> calculateOverallScore(cfg.domains, answers),
     domainScores |-> [i \in 1..Len(getSelectedDomains(cfg, sel)) |->
         calculateDomainScore(
             DomainById(cfg, getSelectedDomains(cfg, sel)[i].id).areas,
             answers)]]

\* renderRunner: totalQuestions, the questions of the areas of selectedDomains
RECURSIVE questionsOfAreas(_, _)
questionsOfAreas(areas, i) ==
    IF i > Len(areas) THEN 0
    ELSE Len(areas[i].questions) + questionsOfAreas(areas, i + 1)

RECURSIVE totalQuestions(_, _)
totalQuestions(selectedDomains, i) ==
    IF i > Len(selectedDomains) THEN 0
    ELSE questionsOfAreas(selectedDomains[i].areas, 1)
         + totalQuestions(selectedDomains, i + 1)

\* arr.filter(v => v === true || v === false).length
answeredIn(arr) == Cardinality({i \in 1..Len(arr) : arr[i] # "null"})

\* renderRunner: countAnswered() over the entries with the keys in ids,
\* Object.values(answersByArea) being every entry there is
RECURSIVE countAnswered(_, _)
countAnswered(answers, ids) ==
    IF ids = {} THEN 0
    ELSE LET id == CHOOSE x \in ids : TRUE
         IN answeredIn(answers[id]) + countAnswered(answers, ids \ {id})

\* Math.round(answered / total * 100), or 0 when total is 0
progressPercent(answered, total) ==
    IF total > 0 THEN (200 * answered + total) \div (2 * total) ELSE 0

\* setStats() of a render whose totalQuestions is total
setStats(answers, total) ==
    LET answered == countAnswered(answers, DOMAIN answers)
    IN [answered |-> answered, total |-> total,
        pct |-> progressPercent(answered, total)]

\* renderReport(): the selectedDomains it computes once and hands to the
\* submit handler, the overall score and the score of each selected domain
renderReport(cfg, sel, answers) ==
    LET selectedDomains == getSelectedDomains(cfg, sel)
    IN [selectedDomains |-> selectedDomains,
        overall |-> calculateOverallScore(selectedDomains, answers),
        domainScores |-> [i \in 1..Len(selectedDomains) |->
            calculateDomainScore(selectedDomains[i].areas, answers)]]

\* submitToServer: the ids of the areas of selectedDomains, in order
RECURSIVE selectedAreaIds(_, _)
selectedAreaIds(selectedDomains, i) ==
    IF i > Len(selectedDomains) THEN <<>>
    ELSE [j \in 1..Len(selectedDomains[i].areas) |->
              selectedDomains[i].areas[j].id]
         \o selectedAreaIds(selectedDomains, i + 1)

\* mutant of submitPayload: every recorded answer is sent
submitPayloadAllAnswers(selectedDomains, answers, org) ==
    [orgInfo |-> org,
     selectedAreas |-> selectedAreaIds(selectedDomains, 1),
     answers |-> answers]

\* submitToServer: the payload; `answersByArea[areaId] || []`, an array
\* being truthy whatever it holds
submitPayload(selectedDomains, answers, org) ==
    LET ids == selectedAreaIds(selectedDomains, 1)
    IN [orgInfo |-> org,
        selectedAreas |-> ids,
        answers |-> [areaId \in Range(ids) |->
            IF areaId \in DOMAIN answers THEN answers[areaId] ELSE <<>>]]

\* localStorage.removeItem(key)
removeItem(store, key) == [k \in DOMAIN store \ {key} |-> store[k]]

\* a setItem call may throw while fewer than MaxWriteFailures have
WriteOutcomes == IF writeFailures < MaxWriteFailures THEN BOOLEAN ELSE {TRUE}

Failed(ok) == IF ok THEN 0 ELSE 1

\* updateSelectionCounters() on the selection state sel
UpdateSelectionCounters(sel, ok) ==
    LET r == validateSelection(sel)
    IN /\ selectionState' = r.state
       /\ startDisabled' = ~r.ret
       /\ storage' = saveLocal(storage, LS_SELECTION, r.state, ok)
       /\ writeFailures' = writeFailures + Failed(ok)

\* renderSelection() on the selection state sel
RenderSelection(sel, ok) ==
    /\ domainCheckbox' = renderedDomainCheckboxes(config, sel)
    /\ UpdateSelectionCounters(sel, ok)

-----------------------------------------------------------------------------
(* Values the variables hold while a specification does not use them *)

NoSelection == [domains |-> <<>>]
NoAnswers == <<>>
NoOrgInfo == <<>>
NoStorage == <<>>
NoCheckboxes == <<>>
Nothing == <<>>
NoReport == <<>>
NoPayload == <<>>
NoStats == <<>>

IdleWizard ==
    /\ orgInfo = NoOrgInfo
    /\ currentStep = "org"
    /\ storage = NoStorage
    /\ domainCheckbox = NoCheckboxes
    /\ startDisabled = FALSE
    /\ writeFailures = 0
    /\ report = NoReport
    /\ payload = NoPayload
    /\ submitStatus = "idle"
    /\ stats = NoStats

-----------------------------------------------------------------------------
(* SpecValidate: validateSelection applied, up to MaxCalls times in         *)
(* succession, to an arbitrary selection state                              *)

InitValidate ==
    /\ config \in Configs
    /\ tieRoundsUp = TRUE
    /\ selectionState \in SelectionStates(config)
    /\ answersByArea = NoAnswers
    /\ IdleWizard
    /\ lastEvent = "init"
    /\ input = selectionState
    /\ output = <<>>

CallValidateSelection ==
    /\ Len(output) < MaxCalls
    /\ LET r == validateSelection(selectionState)
       IN /\ selectionState' = r.state
          /\ output' = Append(output, r)
    /\ lastEvent' = "validateSelection"
    /\ UNCHANGED <<config, tieRoundsUp, answersByArea, wizardVars, input>>

NextValidate == CallValidateSelection

SpecValidate == InitValidate /\ [][NextValidate]_vars

\* at least one area flag of the domain entry is true
AnyArea(dom) == \E a \in DOMAIN dom.areas : dom.areas[a]

\* C1 as stated: after validateSelection returns, every domain has
\* selected == true iff at least one of its area flags is true, whatever the
\* state it was given.
C1_SelectedIffAnyArea ==
    Len(output) >= 1 =>
        \A id \in DOMAIN selectionState.domains :
            selectionState.domains[id].selected <=> AnyArea(selectionState.domains[id])

\* C1 amended: after validateSelection returns, every domain with
\* selected == true has at least one true area flag; the repair only clears
\* selected, so the iff holds for exactly the domains that were not given with
\* selected == false and a true area flag.
C1_SelectedImpliesAnyArea ==
    Len(output) >= 1 =>
        \A id \in DOMAIN output[1].state.domains :
            LET pre  == input.domains[id]
                post == output[1].state.domains[id]
            IN /\ post.selected => AnyArea(post)
               /\ (post.selected <=> AnyArea(post))
                    <=> ~(~pre.selected /\ AnyArea(pre))

\* C1 witness: one domain was repaired and another one was given with
\* selected == false and a true area flag.
C1_Witness ==
    /\ Len(output) >= 1
    /\ \E id \in DOMAIN input.domains :
          input.domains[id].selected /\ ~AnyArea(input.domains[id])
    /\ \E id \in DOMAIN input.domains :
          ~input.domains[id].selected /\ AnyArea(input.domains[id])

\* C3: validateSelection returns true iff at least one area flag is true in
\* at least one domain; the selected flags do not influence the result.
C3_ReturnsAnyAreaSelected ==
    Len(output) >= 1 =>
        (output[1].ret <=>
            \E id \in DOMAIN input.domains : AnyArea(input.domains[id]))

\* C3 witness: true is returned although no domain has selected == true.
C3_Witness ==
    /\ Len(output) >= 1
    /\ output[1].ret
    /\ \A id \in DOMAIN input.domains : ~input.domains[id].selected

\* C10: a second validateSelection call in succession returns the same
\* boolean and leaves the same selection state as the call before it.
C10_Idempotent ==
    \A i \in 1..(Len(output) - 1) :
        /\ output[i + 1].ret = output[i].ret
        /\ output[i + 1].state = output[i].state

\* C10 witness: two calls were made and the first one repaired a domain.
C10_Witness ==
    /\ Len(output) >= 2
    /\ output[1].state # input
    /\ selectionState = output[2].state

-----------------------------------------------------------------------------
(* SpecSelect: getSelectedDomains applied to an arbitrary selection state   *)
(* and to a second one that has the same area flags and any selected flags  *)

SameAreaFlags(sel) ==
    { [domains |-> [id \in DOMAIN sel.domains |->
                      [selected |-> f[id], areas |-> sel.domains[id].areas]]] :
        f \in [DOMAIN sel.domains -> BOOLEAN] }

InitSelect ==
    /\ config \in Configs
    /\ tieRoundsUp = TRUE
    /\ selectionState \in SelectionStates(config)
    /\ answersByArea = NoAnswers
    /\ IdleWizard
    /\ lastEvent = "init"
    /\ input \in SameAreaFlags(selectionState)
    /\ output = Nothing

CallGetSelectedDomains ==
    /\ lastEvent = "init"
    /\ output' = [first  |-> getSelectedDomains(config, selectionState),
                  second |-> getSelectedDomains(config, input)]
    /\ config' = getSelectedDomainsEffect(config, selectionState).config
    /\ selectionState' =
          getSelectedDomainsEffect(config, selectionState).selectionState
    /\ lastEvent' = "getSelectedDomains"
    /\ UNCHANGED <<tieRoundsUp, answersByArea, wizardVars, input>>

NextSelect == CallGetSelectedDomains

SpecSelect == InitSelect /\ [][NextSelect]_vars

\* the j-th smallest of a set of positions
NthKept(kept, j) == CHOOSE p \in kept : Cardinality({q \in kept : q < p}) = j - 1

\* the domain entry of sel for the domain, an entry with no flags if missing
EntryOf(sel, id) ==
    IF id \in DOMAIN sel.domains THEN sel.domains[id]
    ELSE [selected |-> FALSE, areas |-> <<>>]

HasFlaggedArea(sel, domain) ==
    \E a \in Range(domain.areas) : Flag(EntryOf(sel, domain.id), a.id)

\* C4: getSelectedDomains returns exactly the configuration's domains with at
\* least one area flagged true, in configuration order and each at most once;
\* each returned domain's areas are exactly its areas flagged true, in
\* configuration order, and never the empty list.
C4_SelectedDomainsExact ==
    lastEvent = "getSelectedDomains" =>
        LET out  == output.first
            kept == {p \in 1..Len(config.domains) :
                        HasFlaggedArea(selectionState, config.domains[p])}
        IN /\ Len(out) = Cardinality(kept)
           /\ \A j \in 1..Len(out) :
                LET domain == config.domains[NthKept(kept, j)]
                    flagged == {p \in 1..Len(domain.areas) :
                                  Flag(EntryOf(selectionState, domain.id),
                                       domain.areas[p].id)}
                IN /\ out[j].id = domain.id
                   /\ Len(out[j].areas) = Cardinality(flagged)
                   /\ Len(out[j].areas) > 0
                   /\ \A k \in 1..Len(out[j].areas) :
                        out[j].areas[k] = domain.areas[NthKept(flagged, k)]
           /\ \A j, k \in 1..Len(out) : j # k => out[j].id # out[k].id

\* C4 witness: two domains are returned and the first has lost an area.
C4_Witness ==
    /\ lastEvent = "getSelectedDomains"
    /\ Len(output.first) = 2
    /\ Len(output.first[1].areas) < Len(config.domains[1].areas)

\* C5: the result of getSelectedDomains depends only on the area flags: a
\* selection state with the same area flags and other selected flags gives the
\* same result, a domain with selected == false and a true area flag is
\* returned and a domain with selected == true and no true area flag is not.
C5_SelectedFlagNotAuthoritative ==
    lastEvent = "getSelectedDomains" =>
        /\ output.first = output.second
        /\ \A d \in Range(config.domains) :
             d.id \in DOMAIN selectionState.domains =>
                LET returned == \E j \in 1..Len(output.first) : output.first[j].id = d.id
                    domSel   == selectionState.domains[d.id]
                IN /\ (~domSel.selected /\ HasFlaggedArea(selectionState, d)) => returned
                   /\ (domSel.selected /\ ~HasFlaggedArea(selectionState, d)) => ~returned

\* C5 witness: the two selection states differ in a selected flag, and a
\* domain with selected == false is returned.
C5_Witness ==
    /\ lastEvent = "getSelectedDomains"
    /\ input # selectionState
    /\ \E j \in 1..Len(output.first) :
          ~selectionState.domains[output.first[j].id].selected
    /\ \E d \in Range(config.domains) :
          /\ d.id \in DOMAIN selectionState.domains
          /\ selectionState.domains[d.id].selected
          /\ ~HasFlaggedArea(selectionState, d)

-----------------------------------------------------------------------------
(* SpecScore: the three scoring functions applied to the areas and domains  *)
(* of a configuration and an arbitrary answer state                         *)

TriState == {"true", "false", "null"}

AnswerSeqs == UNION {[1..n -> TriState] : n \in 0..MaxAnswers}

InitScore ==
    /\ config \in Configs
    /\ tieRoundsUp \in BOOLEAN
    /\ selectionState = NoSelection
    /\ answersByArea \in PartialMaps(AllAreaIds(config), AnswerSeqs)
    /\ IdleWizard
    /\ lastEvent = "init"
    /\ input = Nothing
    /\ output = Nothing

CallCalculateAreaScore ==
    /\ lastEvent = "init"
    /\ \E a \in DOMAIN answersByArea :
          /\ input' = answersByArea[a]
          /\ output' = calculateAreaScore(answersByArea[a])
    /\ lastEvent' = "calculateAreaScore"
    /\ UNCHANGED <<config, tieRoundsUp, selectionState, answersByArea, wizardVars>>

CallCalculateDomainScore ==
    /\ lastEvent = "init"
    /\ \E d \in Range(config.domains) :
          /\ input' = d.areas
          /\ output' = calculateDomainScore(d.areas, answersByArea)
    /\ lastEvent' = "calculateDomainScore"
    /\ UNCHANGED <<config, tieRoundsUp, selectionState, answersByArea, wizardVars>>

CallCalculateOverallScore ==
    /\ lastEvent = "init"
    /\ input' = config.domains
    /\ output' = calculateOverallScore(config.domains, answersByArea)
    /\ lastEvent' = "calculateOverallScore"
    /\ UNCHANGED <<config, tieRoundsUp, selectionState, answersByArea, wizardVars>>

NextScore ==
    \/ CallCalculateAreaScore
    \/ CallCalculateDomainScore
    \/ CallCalculateOverallScore

SpecScore == InitScore /\ [][NextScore]_vars

RECURSIVE SumSeq(_)
SumSeq(seq) == IF seq = <<>> THEN 0 ELSE Head(seq) + SumSeq(Tail(seq))

Abs(x) == IF x < 0 THEN -x ELSE x

\* r is a number of hundredths nearest to n / d
NearestHundredth(r, n, d) == 2 * Abs(d * r - n) <= d

\* C6: calculateAreaScore(a) is 5 * (number of true entries) / max(n, 1)
\* rounded to 2 decimals and lies in [0, 5]; false and null entries count the
\* same; the empty sequence scores 0; [true] gives 5.00, [true,false] 2.50 and
\* [false,false] 0.00.
C6_AreaScore ==
    lastEvent = "calculateAreaScore" =>
        LET a   == input
            n   == Len(a)
            yes == Cardinality({i \in 1..n : a[i] = "true"})
            noNulls == [i \in 1..n |-> IF a[i] = "null" THEN "false" ELSE a[i]]
        IN /\ NearestHundredth(output, 500 * yes, Max(n, 1))
           /\ output \in 0..500
           /\ output = calculateAreaScore(noNulls)
           /\ a = <<>> => output = 0
           /\ a = <<"true">> => output = 500
           /\ a = <<"true", "false">> => output = 250
           /\ a = <<"false", "false">> => output = 0

\* C6 witness: an unanswered entry beside a yes halves the score.
C6_Witness ==
    /\ lastEvent = "calculateAreaScore"
    /\ input = <<"true", "null">>
    /\ output = 250

\* the term of an area in the mean of its domain
C7_Term(area, answers) ==
    IF area.id \notin DOMAIN answers \/ answers[area.id] = <<>> THEN 0
    ELSE calculateAreaScore(answers[area.id])

\* C7: calculateDomainScore is the mean, rounded to 2 decimals, of one term
\* per area of domainAreas (calculateAreaScore of the recorded answers, 0 when
\* none are recorded), divided by the number of areas; it is 0 for no areas,
\* lies in [0, 5], and [true,true] beside an unanswered 3-question area is 2.50.
C7_DomainScore ==
    lastEvent = "calculateDomainScore" =>
        LET areas == input
            n     == Len(areas)
            terms == [i \in 1..n |-> C7_Term(areas[i], answersByArea)]
        IN /\ n = 0 => output = 0
           /\ n > 0 => NearestHundredth(output, SumSeq(terms), n)
           /\ output \in 0..500
           /\ (/\ areas = ConfigTwoDomains.domains[1].areas
               /\ answersByArea = [a \in {"a1"} |-> <<"true", "true">>])
                => output = 250

\* C7 witness: area a1 answered [true,true], area a2 (3 questions) unanswered.
C7_Witness ==
    /\ lastEvent = "calculateDomainScore"
    /\ config = ConfigTwoDomains
    /\ input = ConfigTwoDomains.domains[1].areas
    /\ answersByArea = [a \in {"a1"} |-> <<"true", "true">>]
    /\ output = 250

\* C8: calculateOverallScore is the mean, rounded to 2 decimals, of
\* calculateDomainScore over the domains of selectedDomains, one term per
\* domain; it is 0 for no domains, lies in [0, 5], and domains scoring 2.50 and
\* 5.00 give 3.75.
C8_OverallScore ==
    lastEvent = "calculateOverallScore" =>
        LET domains == input
            n       == Len(domains)
            terms   == [i \in 1..n |->
                          calculateDomainScore(domains[i].areas, answersByArea)]
        IN /\ n = 0 => output = 0
           /\ n > 0 => NearestHundredth(output, SumSeq(terms), n)
           /\ output \in 0..500
           /\ (n = 2 /\ terms[1] = 250 /\ terms[2] = 500) => output = 375

\* C8 witness: a two-area domain scoring 2.50 and a one-area domain scoring
\* 5.00 give 3.75.
C8_Witness ==
    /\ lastEvent = "calculateOverallScore"
    /\ Len(input) = 2
    /\ Len(input[1].areas) = 2
    /\ calculateDomainScore(input[1].areas, answersByArea) = 250
    /\ calculateDomainScore(input[2].areas, answersByArea) = 500
    /\ output = 375

-----------------------------------------------------------------------------
(* Spec: the full-flow wizard of create.js, started on an empty             *)
(* localStorage. A handler runs when its control is in the stage that       *)
(* showStep has made visible.                                               *)

WizardConfigs == {ConfigEmptyDomain, ConfigNoQuestions, ConfigNoDomains}

\* main(): the three loadLocal calls, then renderSelection()
Init ==
    /\ config \in WizardConfigs
    /\ tieRoundsUp \in BOOLEAN
    /\ answersByArea = loadLocal(EmptyObject, LS_ANSWERS, EmptyObject, TRUE)
    /\ orgInfo = loadLocal(EmptyObject, LS_ORGINFO, EmptyObject, TRUE)
    /\ currentStep = "org"
    /\ \E ok \in BOOLEAN :
          LET loaded == loadLocal(EmptyObject, LS_SELECTION,
                                  buildDefaultSelection(config), TRUE)
              r == validateSelection(loaded)
          IN /\ domainCheckbox = renderedDomainCheckboxes(config, loaded)
             /\ selectionState = r.state
             /\ startDisabled = ~r.ret
             /\ storage = saveLocal(EmptyObject, LS_SELECTION, r.state, ok)
             /\ writeFailures = Failed(ok)
    /\ report = NoReport
    /\ payload = NoPayload
    /\ submitStatus = "idle"
    /\ stats = NoStats
    /\ lastEvent = "main"
    /\ input = Nothing
    /\ output = Nothing

\* orgInfoNextBtn click; valid is what validateOrgForm() returns
OrgInfoNext ==
    /\ currentStep = "org"
    /\ lastEvent' = "orgInfoNext"
    /\ \E valid \in BOOLEAN :
          IF ~valid
          THEN UNCHANGED <<selectionState, orgInfo, currentStep, storage,
                           domainCheckbox, startDisabled, writeFailures>>
          ELSE \E ok1 \in WriteOutcomes :
                 /\ orgInfo' = FilledOrgInfo
                 /\ currentStep' = "select"
                 /\ LET saved == saveLocal(storage, LS_ORGINFO, FilledOrgInfo, ok1)
                        r == validateSelection(selectionState)
                    IN \E ok2 \in (IF writeFailures + Failed(ok1) < MaxWriteFailures
                                   THEN BOOLEAN ELSE {TRUE}) :
                          /\ domainCheckbox' =
                                renderedDomainCheckboxes(config, selectionState)
                          /\ selectionState' = r.state
                          /\ startDisabled' = ~r.ret
                          /\ storage' = saveLocal(saved, LS_SELECTION, r.state, ok2)
                          /\ writeFailures' = writeFailures + Failed(ok1) + Failed(ok2)
    /\ UNCHANGED <<stats, config, tieRoundsUp, answersByArea, input, output, reportVars>>

\* change event of a .domain-checkbox: the user has toggled the element
DomainCheckboxChange ==
    /\ currentStep = "select"
    /\ \E domId \in DOMAIN domainCheckbox, ok \in WriteOutcomes :
          LET checked == ~domainCheckbox[domId]
          IN /\ domainCheckbox' = [domainCheckbox EXCEPT ![domId] = checked]
             /\ UpdateSelectionCounters(
                    domainCheckboxChange(selectionState, domId, checked), ok)
    /\ lastEvent' = "domainCheckbox"
    /\ UNCHANGED <<stats, config, tieRoundsUp, answersByArea, orgInfo, currentStep,
                   input, output, reportVars>>

\* change event of an .area-checkbox: the element mirrors the area's flag
\* (rendered from it, synced by the domain branch) and the user has toggled it
AreaCheckboxChange ==
    /\ currentStep = "select"
    /\ \E domId \in DOMAIN domainCheckbox, ok \in WriteOutcomes :
        \E areaId \in AreaIdsOf(DomainById(config, domId)) :
          LET checked == ~Flag(selectionState.domains[domId], areaId)
              sel == areaCheckboxChange(selectionState, domId, areaId, checked)
          IN /\ domainCheckbox' =
                    [domainCheckbox EXCEPT ![domId] = sel.domains[domId].selected]
             /\ UpdateSelectionCounters(sel, ok)
    /\ lastEvent' = "areaCheckbox"
    /\ UNCHANGED <<stats, config, tieRoundsUp, answersByArea, orgInfo, currentStep,
                   input, output, reportVars>>

\* btnSelectAll click
SelectAll ==
    /\ currentStep = "select"
    /\ \E ok \in WriteOutcomes : RenderSelection(buildDefaultSelection(config), ok)
    /\ lastEvent' = "selectAll"
    /\ UNCHANGED <<stats, config, tieRoundsUp, answersByArea, orgInfo, currentStep,
                   input, output, reportVars>>

\* btnDeselectAll click
DeselectAll ==
    /\ currentStep = "select"
    /\ \E ok \in WriteOutcomes : RenderSelection(deselectAll(config), ok)
    /\ lastEvent' = "deselectAll"
    /\ UNCHANGED <<stats, config, tieRoundsUp, answersByArea, orgInfo, currentStep,
                   input, output, reportVars>>

\* mutant of StartAssessment: the result of validateSelection is not looked at
StartAssessmentNoGate ==
    /\ currentStep = "select"
    /\ LET r == validateSelection(selectionState)
       IN /\ selectionState' = r.state
          /\ currentStep' = "runner"
          /\ stats' = setStats(answersByArea,
                totalQuestions(getSelectedDomains(config, r.state), 1))
          /\ answersByArea' =
                lazyInit(getSelectedDomains(config, r.state), answersByArea, 1)
    /\ lastEvent' = "startAssessment"
    /\ UNCHANGED <<config, tieRoundsUp, orgInfo, storage, domainCheckbox,
                   startDisabled, writeFailures, input, output, reportVars>>

\* startAssessmentBtn click. The handler is taken to run whether or not the
\* button carries the disabled attribute: its own check is what is modelled.
\* renderRunner() calls setStats() before it creates the missing entries.
StartAssessment ==
    /\ currentStep = "select"
    /\ LET r == validateSelection(selectionState)
       IN IF ~r.ret
          THEN /\ selectionState' = r.state
               /\ UNCHANGED <<config, currentStep, answersByArea, stats>>
          ELSE /\ currentStep' = "runner"
               /\ stats' = setStats(answersByArea,
                     totalQuestions(getSelectedDomains(config, r.state), 1))
               /\ config' = getSelectedDomainsEffect(config, r.state).config
               /\ selectionState' =
                     getSelectedDomainsEffect(config, r.state).selectionState
               /\ answersByArea' =
                     lazyInit(getSelectedDomains(config, r.state),
                              answersByArea, 1)
    /\ lastEvent' = "startAssessment"
    /\ UNCHANGED <<tieRoundsUp, orgInfo, storage, domainCheckbox,
                   startDisabled, writeFailures, input, output, reportVars>>

\* backToOrgInfoBtn click
BackToOrgInfo ==
    /\ currentStep = "select"
    /\ currentStep' = "org"
    /\ lastEvent' = "backToOrgInfo"
    /\ UNCHANGED <<stats, config, tieRoundsUp, selectionState, answersByArea, orgInfo,
                   storage, domainCheckbox, startDisabled, writeFailures,
                   input, output, reportVars>>

\* click on an .answer-btn of the runner: the buttons are those of the areas
\* renderRunner drew, the areas of getSelectedDomains. After the assignment
\* the listener restyles the two buttons of the group, and for the button
\* that is not the answer given it calls classList.add('', ...) (lines 521
\* and 527). DOMTokenList.add throws a SyntaxError for an empty token, so
\* the listener ends there, on every click, before it reaches
\* saveLocal(LS_ANSWERS, answersByArea) and setStats(). Every render adds a
\* listener; each of them makes the same assignment and ends the same way.
AnswerClick ==
    /\ currentStep = "runner"
    /\ \E d \in Range(getSelectedDomains(config, selectionState)) :
        \E area \in Range(d.areas) :
         \E idx \in 1..Len(area.questions), val \in {"true", "false"} :
            answersByArea' = [answersByArea EXCEPT ![area.id][idx] = val]
    /\ lastEvent' = "answer"
    /\ UNCHANGED <<config, tieRoundsUp, selectionState, orgInfo, currentStep,
                   storage, writeFailures, stats, domainCheckbox,
                   startDisabled, input, output, reportVars>>

\* mutant of BackToSelection: the selection is rebuilt before it is drawn
BackToSelectionRebuilds ==
    /\ currentStep = "runner"
    /\ currentStep' = "select"
    /\ \E ok \in WriteOutcomes :
          RenderSelection(buildDefaultSelection(config), ok)
    /\ stats' = NoStats
    /\ lastEvent' = "backToSelection"
    /\ UNCHANGED <<config, tieRoundsUp, answersByArea, orgInfo, input, output,
                   reportVars>>

\* backToSelectionBtn click
BackToSelection ==
    /\ currentStep = "runner"
    /\ currentStep' = "select"
    /\ \E ok \in WriteOutcomes : RenderSelection(selectionState, ok)
    /\ stats' = NoStats
    /\ lastEvent' = "backToSelection"
    /\ UNCHANGED <<config, tieRoundsUp, answersByArea, orgInfo, input, output,
                   reportVars>>

\* finishAssessmentBtn click: renderReport()
FinishAssessment ==
    /\ currentStep = "runner"
    /\ report' = renderReport(config, selectionState, answersByArea)
    /\ config' = getSelectedDomainsEffect(config, selectionState).config
    /\ selectionState' =
          getSelectedDomainsEffect(config, selectionState).selectionState
    /\ currentStep' = "report"
    /\ lastEvent' = "finishAssessment"
    /\ UNCHANGED <<stats, tieRoundsUp, answersByArea, orgInfo,
                   storage, domainCheckbox, startDisabled, writeFailures,
                   payload, submitStatus, input, output>>

\* The buttons of the report stage are those of #reportActions, which
\* submitToServer hides until the request has failed. Once the report stage
\* is hidden nothing reads what renderReport left, and the next renderReport
\* replaces it before the stage is shown again: report is emptied. The same
\* goes for stats when the runner is left for the selection or restarted;
\* backToRunnerBtn shows the runner again as it was, without a render.

\* backToRunnerBtn click
BackToRunner ==
    /\ currentStep = "report"
    /\ submitStatus = "idle"
    /\ currentStep' = "runner"
    /\ report' = NoReport
    /\ input' = Nothing
    /\ lastEvent' = "backToRunner"
    /\ UNCHANGED <<stats, config, tieRoundsUp, selectionState, answersByArea, orgInfo,
                   storage, domainCheckbox, startDisabled, writeFailures,
                   payload, submitStatus, output>>

\* the sequences of outcomes of n setItem calls that may still happen
WriteOutcomeSeqs(n) ==
    {oks \in [1..n -> BOOLEAN] :
        writeFailures + Cardinality({i \in 1..n : ~oks[i]}) <= MaxWriteFailures}

\* mutant of Restart: answersByArea is saved but not emptied
RestartKeepsAnswers ==
    /\ currentStep = "report"
    /\ submitStatus = "idle"
    /\ report' = NoReport
    /\ \E oks \in WriteOutcomeSeqs(4) :
          LET built == buildDefaultSelection(config)
              s1 == saveLocal(storage, LS_ANSWERS, answersByArea, oks[1])
              s2 == saveLocal(s1, LS_SELECTION, built, oks[2])
              s3 == saveLocal(s2, LS_ORGINFO, EmptyObject, oks[3])
              r  == validateSelection(built)
          IN /\ answersByArea' = answersByArea
             /\ orgInfo' = EmptyObject
             /\ currentStep' = "org"
             /\ domainCheckbox' = renderedDomainCheckboxes(config, built)
             /\ selectionState' = r.state
             /\ startDisabled' = ~r.ret
             /\ storage' = saveLocal(s3, LS_SELECTION, r.state, oks[4])
             /\ writeFailures' =
                    writeFailures + Cardinality({i \in 1..4 : ~oks[i]})
    /\ stats' = NoStats
    /\ input' = Nothing
    /\ lastEvent' = "restart"
    /\ UNCHANGED <<config, tieRoundsUp, payload, submitStatus, output>>

\* restartBtn click
Restart ==
    /\ currentStep = "report"
    /\ submitStatus = "idle"
    /\ report' = NoReport
    /\ \E oks \in WriteOutcomeSeqs(4) :
          LET built == buildDefaultSelection(config)
              s1 == saveLocal(storage, LS_ANSWERS, EmptyObject, oks[1])
              s2 == saveLocal(s1, LS_SELECTION, built, oks[2])
              s3 == saveLocal(s2, LS_ORGINFO, EmptyObject, oks[3])
              r  == validateSelection(built)
          IN /\ answersByArea' = EmptyObject
             /\ orgInfo' = EmptyObject
             /\ currentStep' = "org"
             /\ domainCheckbox' = renderedDomainCheckboxes(config, built)
             /\ selectionState' = r.state
             /\ startDisabled' = ~r.ret
             /\ storage' = saveLocal(s3, LS_SELECTION, r.state, oks[4])
             /\ writeFailures' =
                    writeFailures + Cardinality({i \in 1..4 : ~oks[i]})
    /\ stats' = NoStats
    /\ input' = Nothing
    /\ lastEvent' = "restart"
    /\ UNCHANGED <<config, tieRoundsUp, payload, submitStatus, output>>

\* submitAssessmentBtn click: submitToServer(selectedDomains) up to its first
\* await, with the selectedDomains renderReport computed
SubmitClick ==
    /\ currentStep = "report"
    /\ submitStatus = "idle"
    /\ payload' = submitPayload(report.selectedDomains, answersByArea, orgInfo)
    /\ submitStatus' = "pending"
    /\ input' = Nothing
    /\ lastEvent' = "submit"
    /\ UNCHANGED <<stats, config, tieRoundsUp, selectionState, answersByArea, orgInfo,
                   currentStep, storage, domainCheckbox, startDisabled,
                   writeFailures, report, output>>

\* the slots in the order submitToServer removes them
SlotKeys == <<LS_SELECTION, LS_ANSWERS, LS_ORGINFO>>

\* the store after the first n removeItem calls of submitToServer
RECURSIVE removeSlots(_, _)
removeSlots(store, n) ==
    IF n = 0 THEN store
    ELSE removeItem(removeSlots(store, n - 1), SlotKeys[n])

\* what the awaits of submitToServer gave: fetched is whether fetch and
\* resp.json() resolved, ok is resp.ok and status is result.status
Responses ==
    {[fetched |-> FALSE, ok |-> FALSE, status |-> "none"]}
    \cup {[fetched |-> TRUE, ok |-> ok, status |-> status] :
            ok \in BOOLEAN, status \in {"success", "error"}}

\* mutant of Accepted: resp.ok is not looked at
AcceptedWhateverOk(response) ==
    response.fetched /\ response.status = "success"

\* resp.ok && result.status === 'success', reached when the awaits resolved
Accepted(response) ==
    response.fetched /\ response.ok /\ response.status = "success"

\* submitToServer after its awaits; input records what they gave. removed
\* is the number of removeItem calls that return: all of them, or fewer
\* when the next one throws, which counts as a failed write. The catch
\* block runs for a rejected await, for a response that is not accepted and
\* for a removeItem call that throws.
SubmitResponse ==
    /\ submitStatus = "pending"
    /\ \E response \in Responses :
          /\ input' = response
          /\ IF Accepted(response)
             THEN \E removed \in 0..Len(SlotKeys) :
                    /\ removed < Len(SlotKeys) => writeFailures < MaxWriteFailures
                    /\ storage' = removeSlots(storage, removed)
                    /\ IF removed = Len(SlotKeys)
                       THEN /\ submitStatus' = "redirecting"
                            /\ lastEvent' = "submitSucceeded"
                            /\ UNCHANGED <<payload, writeFailures>>
                       ELSE /\ submitStatus' = "idle"
                            /\ payload' = NoPayload
                            /\ writeFailures' = writeFailures + 1
                            /\ lastEvent' = "submitFailed"
             ELSE /\ submitStatus' = "idle"
                  /\ payload' = NoPayload
                  /\ lastEvent' = "submitFailed"
                  /\ UNCHANGED <<storage, writeFailures>>
    /\ UNCHANGED <<stats, config, tieRoundsUp, selectionState, answersByArea,
                   orgInfo, currentStep, domainCheckbox, startDisabled,
                   report, output>>

\* the 600 ms timer of a successful submission: the page is left
Redirect ==
    /\ submitStatus = "redirecting"
    /\ submitStatus' = "redirected"
    /\ lastEvent' = "redirect"
    /\ UNCHANGED <<stats, config, tieRoundsUp, selectionState, answersByArea, orgInfo,
                   currentStep, storage, domainCheckbox, startDisabled,
                   writeFailures, report, payload, input, output>>

Next ==
    \/ OrgInfoNext
    \/ DomainCheckboxChange
    \/ AreaCheckboxChange
    \/ SelectAll
    \/ DeselectAll
    \/ StartAssessment
    \/ BackToOrgInfo
    \/ AnswerClick
    \/ BackToSelection
    \/ FinishAssessment
    \/ BackToRunner
    \/ Restart
    \/ SubmitClick
    \/ SubmitResponse
    \/ Redirect

Spec == Init /\ [][Next]_vars

\* at least one area is flagged true in Selection State
SomeAreaSelected ==
    \E id \in DOMAIN selectionState.domains : AnyArea(selectionState.domains[id])

\* C2: in the wizard, from buildDefaultSelection(config) on and after every
\* domain-checkbox change, area-checkbox change, select-all, deselect-all and
\* restart, every domain of Selection State has selected == true iff at least
\* one of its area flags is true.
C2_WizardSelectedIffAnyArea ==
    \A id \in DOMAIN selectionState.domains :
        selectionState.domains[id].selected <=> AnyArea(selectionState.domains[id])

\* C2 witness: the area checkboxes of a domain were unchecked one by one, the
\* last change cleared the domain's selected flag, and a domain without areas
\* whose checkbox the user had checked is not selected.
C2_Witness ==
    /\ lastEvent = "areaCheckbox"
    /\ \E id \in DOMAIN selectionState.domains :
          /\ AreaIdsOf(DomainById(config, id)) # {}
          /\ ~selectionState.domains[id].selected
          /\ ~domainCheckbox[id]
    /\ \E id \in DOMAIN selectionState.domains :
          /\ AreaIdsOf(DomainById(config, id)) = {}
          /\ domainCheckbox[id]
          /\ ~selectionState.domains[id].selected

\* C9: whenever the current step is 'runner' or 'report' at least one area is
\* flagged true in Selection State, and a click on Start with no area
\* selected leaves the step at 'select'.
C9_ProgressionGated ==
    /\ currentStep \in {"runner", "report"} => SomeAreaSelected
    /\ (lastEvent = "startAssessment" /\ ~SomeAreaSelected) => currentStep = "select"

\* C9 witness: after a run of the runner the user went back, deselected
\* everything and clicked Start, and the wizard stayed on the selection step.
C9_Witness ==
    /\ lastEvent = "startAssessment"
    /\ ~SomeAreaSelected
    /\ currentStep = "select"
    /\ answersByArea # EmptyObject

-----------------------------------------------------------------------------
(* SpecDefault: buildDefaultSelection applied to a configuration, then      *)
(* validateSelection applied to what it built                               *)

DomainIdPool == {"d1", "d2"}

AreaIdPool == {"a1", "a2"}

\* the sequences over S in which no element occurs twice
DistinctSeqs(S) ==
    {seq \in UNION {[1..n -> S] : n \in 0..Cardinality(S)} :
        \A i, j \in 1..Len(seq) : i # j => seq[i] # seq[j]}

AreaLists ==
    {[i \in 1..Len(ids) |-> Area(ids[i], 1)] : ids \in DistinctSeqs(AreaIdPool)}

\* every configuration over the pools: domain ids are unique (section 3 of
\* the specification), an area id may be used by both domains
GeneratedConfigs ==
    {[domains |-> [i \in 1..Len(ids) |-> Domain(ids[i], lists[i])]] :
        ids \in DistinctSeqs(DomainIdPool),
        lists \in [1..Cardinality(DomainIdPool) -> AreaLists]}

InitDefault ==
    /\ config \in Configs \cup GeneratedConfigs
    /\ tieRoundsUp = TRUE
    /\ selectionState = NoSelection
    /\ answersByArea = NoAnswers
    /\ IdleWizard
    /\ lastEvent = "init"
    /\ input = Nothing
    /\ output = <<>>

CallBuildDefaultSelection ==
    /\ lastEvent = "init"
    /\ selectionState' = buildDefaultSelection(config)
    /\ input' = buildDefaultSelection(config)
    /\ lastEvent' = "buildDefaultSelection"
    /\ UNCHANGED <<config, tieRoundsUp, answersByArea, wizardVars, output>>

NextDefault ==
    \/ CallBuildDefaultSelection
    \/ (lastEvent # "init" /\ CallValidateSelection)

SpecDefault == InitDefault /\ [][NextDefault]_vars

\* C11: buildDefaultSelection(config) has one entry per configuration
\* domain, each with selected == true and a true flag for every area of that
\* domain and for no other area; validateSelection of it returns true
\* whenever the configuration has a domain with an area.
C11_DefaultSelectsEverything ==
    lastEvent # "init" =>
        /\ DOMAIN input.domains = DomainIds(config)
        /\ \A d \in Range(config.domains) :
              /\ input.domains[d.id].selected
              /\ DOMAIN input.domains[d.id].areas = AreaIdsOf(d)
              /\ \A a \in AreaIdsOf(d) : input.domains[d.id].areas[a]
        /\ (Len(output) >= 1 /\ \E d \in Range(config.domains) : Len(d.areas) > 0)
              => output[1].ret

\* C11 witness: the configuration has a domain with areas and one without,
\* and validateSelection has returned true for the default selection.
C11_Witness ==
    /\ Len(output) >= 1
    /\ output[1].ret
    /\ \E d \in Range(config.domains) : Len(d.areas) = 0
    /\ \E d \in Range(config.domains) : Len(d.areas) = 2

-----------------------------------------------------------------------------
(* SpecStorage: saveLocal and loadLocal called in any order on a store      *)
(* whose writes and reads can fail                                          *)

JsonValue(type, literal) == [type |-> type, literal |-> literal]

\* null, false, true, 0, 1, "", "x", {} and []
JsonValues ==
    {JsonValue("null", "null"), JsonValue("boolean", "false"),
     JsonValue("boolean", "true"), JsonValue("number", "0"),
     JsonValue("number", "1"), JsonValue("string", ""),
     JsonValue("string", "x"), JsonValue("object", "{}"),
     JsonValue("array", "[]")}

Fallbacks == {JsonValue("object", "{}"), JsonValue("string", "fallback")}

\* what a call that returns nothing hands to its caller
Undefined == JsonValue("undefined", "undefined")

StorageKeys == {LS_ANSWERS, LS_ORGINFO}

\* what a key may hold before the first call
InitialTexts ==
    {EmptyText, InvalidText, JSONstringify(JsonValue("string", "old"))}

InitStorage ==
    /\ config = ConfigNoDomains
    /\ tieRoundsUp = TRUE
    /\ selectionState = NoSelection
    /\ answersByArea = NoAnswers
    /\ orgInfo = NoOrgInfo
    /\ currentStep = "org"
    /\ domainCheckbox = NoCheckboxes
    /\ startDisabled = FALSE
    /\ writeFailures = 0
    /\ report = NoReport
    /\ payload = NoPayload
    /\ submitStatus = "idle"
    /\ stats = NoStats
    /\ storage \in PartialMaps(StorageKeys, InitialTexts)
    /\ lastEvent = "init"
    /\ input = Nothing
    /\ output = Undefined

\* saveLocal(key, value); input records the call and the store before it
CallSaveLocal ==
    \E key \in StorageKeys, value \in JsonValues, ok \in WriteOutcomes :
        /\ storage' = saveLocal(storage, key, value, ok)
        /\ writeFailures' = writeFailures + Failed(ok)
        /\ input' = [key |-> key, value |-> value, ok |-> ok, before |-> storage]
        /\ output' = Undefined
        /\ lastEvent' = "saveLocal"
        /\ UNCHANGED <<stats, config, tieRoundsUp, selectionState, answersByArea,
                       orgInfo, currentStep, domainCheckbox, startDisabled,
                       reportVars>>

\* loadLocal(key, fallback); input records the call and, in saved, the
\* saveLocal call that came immediately before it, if one did
CallLoadLocal ==
    \E key \in StorageKeys, fallback \in Fallbacks, readOk \in BOOLEAN :
        /\ output' = loadLocal(storage, key, fallback, readOk)
        /\ input' = [key |-> key, fallback |-> fallback, readOk |-> readOk,
                     saved |-> IF lastEvent = "saveLocal" THEN <<input>> ELSE <<>>]
        /\ lastEvent' = "loadLocal"
        /\ UNCHANGED <<config, tieRoundsUp, selectionState, answersByArea,
                       wizardVars>>

NextStorage == CallSaveLocal \/ CallLoadLocal

SpecStorage == InitStorage /\ [][NextStorage]_vars

\* loadLocal(key, ...) has just run directly after saveLocal(key, value)
LoadedAfterSave ==
    /\ lastEvent = "loadLocal"
    /\ input.saved # <<>>
    /\ input.saved[1].key = input.key

\* C12 as stated: loadLocal(k, fallback) directly after saveLocal(k, v)
\* returns v, also when the storage write can fail (the read itself works).
C12_RoundTripAlways ==
    (LoadedAfterSave /\ input.readOk) => output = input.saved[1].value

\* C12 amended: loadLocal(k, fallback) directly after saveLocal(k, v)
\* returns v for every value, falsy ones included, when the write and the
\* read both succeeded; when the write failed it returns what loadLocal
\* returned before the saveLocal call.
C12_RoundTripWhenWritten ==
    (LoadedAfterSave /\ input.readOk) =>
        LET saved == input.saved[1]
        IN /\ saved.ok => output = saved.value
           /\ ~saved.ok =>
                 output = IF /\ input.key \in DOMAIN saved.before
                             /\ IsJSONText(saved.before[input.key])
                          THEN saved.before[input.key][2]
                          ELSE input.fallback

\* C12 witness: null was written over an older text and read back as null.
C12_Witness ==
    /\ LoadedAfterSave
    /\ input.readOk
    /\ input.saved[1].ok
    /\ input.key \in DOMAIN input.saved[1].before
    /\ input.saved[1].value = JsonValue("null", "null")
    /\ output = JsonValue("null", "null")
    /\ output # input.fallback

\* C13: storage errors never reach the caller: saveLocal returns normally,
\* and leaves the store unchanged when the write fails; loadLocal returns
\* the fallback when the key is absent, when the read fails and when the
\* stored text is not valid JSON.
C13_ErrorsSwallowed ==
    /\ output # Thrown
    /\ lastEvent = "saveLocal" =>
          /\ output = Undefined
          /\ ~input.ok => storage = input.before
    /\ (/\ lastEvent = "loadLocal"
        /\ \/ ~input.readOk
           \/ input.key \notin DOMAIN storage
           \/ ~IsJSONText(storage[input.key])) => output = input.fallback

\* C13 witness: a read that worked found a text that is not JSON, left
\* there by a saveLocal whose write failed, and loadLocal gave the fallback.
C13_Witness ==
    /\ LoadedAfterSave
    /\ ~input.saved[1].ok
    /\ input.readOk
    /\ input.key \in DOMAIN storage
    /\ storage[input.key] = InvalidText
    /\ output = input.fallback

-----------------------------------------------------------------------------
(* The wizard: submission, answers, selection, restart and report *)

\* the <<domain index, area index>> pairs of a configuration
AreaPlaces(cfg) ==
    UNION {{<<i, j>> : j \in 1..Len(cfg.domains[i].areas)} :
              i \in 1..Len(cfg.domains)}

AreaAt(cfg, place) == cfg.domains[place[1]].areas[place[2]]

PlaceOf(cfg, areaId) ==
    CHOOSE place \in AreaPlaces(cfg) : AreaAt(cfg, place).id = areaId

Before(p, q) == p[1] < q[1] \/ (p[1] = q[1] /\ p[2] < q[2])

\* the ids of the areas whose flag is true in the selection state
FlaggedAreaIds(cfg, sel) ==
    {AreaAt(cfg, place).id : place \in
        {q \in AreaPlaces(cfg) :
            /\ cfg.domains[q[1]].id \in DOMAIN sel.domains
            /\ Flag(sel.domains[cfg.domains[q[1]].id], AreaAt(cfg, q).id)}}

\* C14: the payload's selectedAreas lists exactly the ids of the areas
\* flagged true in the selection state, in configuration order, and its
\* answers has exactly one key per listed id, holding that area's recorded
\* answers, or the empty sequence when none is recorded.
C14_PayloadIsSelection ==
    submitStatus # "idle" =>
        LET ids == payload.selectedAreas
        IN /\ Range(ids) = FlaggedAreaIds(config, selectionState)
           /\ \A i, j \in 1..Len(ids) :
                 i < j => Before(PlaceOf(config, ids[i]), PlaceOf(config, ids[j]))
           /\ DOMAIN payload.answers = Range(ids)
           /\ \A a \in Range(ids) :
                 payload.answers[a] =
                    IF a \in DOMAIN answersByArea THEN answersByArea[a] ELSE <<>>

\* C14 witness: a submission is under way, an answered area is deselected
\* and left out of it, and an answered selected area is in it.
C14_Witness ==
    /\ submitStatus = "pending"
    /\ \E a \in DOMAIN answersByArea \ DOMAIN payload.answers :
          \E i \in 1..Len(answersByArea[a]) : answersByArea[a][i] # "null"
    /\ \E a \in DOMAIN payload.answers :
          \E i \in 1..Len(payload.answers[a]) : payload.answers[a][i] = "true"

\* every entry of the answer state belongs to an area of the configuration,
\* has one element per question of that area, each "true", "false" or "null"
AnswerStateShaped ==
    \A a \in DOMAIN answersByArea :
        /\ a \in AllAreaIds(config)
        /\ Len(answersByArea[a]) = Len(AreaAt(config, PlaceOf(config, a)).questions)
        /\ \A i \in 1..Len(answersByArea[a]) : answersByArea[a][i] \in TriState

\* a step creates entries only when the runner is rendered, for selected
\* areas and all null, and a runner render keeps every entry there was
AnswerEntriesCreatedOnce ==
    /\ \A a \in DOMAIN answersByArea' \ DOMAIN answersByArea :
          /\ lastEvent' = "startAssessment"
          /\ a \in FlaggedAreaIds(config, selectionState')
          /\ \A i \in 1..Len(answersByArea'[a]) : answersByArea'[a][i] = "null"
    /\ (lastEvent' = "startAssessment" /\ currentStep' = "runner") =>
          /\ FlaggedAreaIds(config, selectionState') \subseteq DOMAIN answersByArea'
          /\ \A a \in DOMAIN answersByArea :
                a \in DOMAIN answersByArea' /\ answersByArea'[a] = answersByArea[a]

\* C15: starting from the empty answer state, after any sequence of wizard
\* events every entry of the answer state is keyed by an area id of the
\* configuration, is as long as that area has questions and holds only
\* true, false or null; an entry is created all null when the runner first
\* renders a selected area and no later runner render replaces it.
C15_AnswerState == []AnswerStateShaped /\ [][AnswerEntriesCreatedOnce]_vars

\* C15 witness: the runner has just been rendered again; it kept an entry
\* that holds an answer and there is an entry that is all null.
C15_Witness ==
    /\ lastEvent = "startAssessment"
    /\ currentStep = "runner"
    /\ \E a \in DOMAIN answersByArea :
          \E i \in 1..Len(answersByArea[a]) : answersByArea[a][i] = "false"
    /\ \E a \in DOMAIN answersByArea :
          /\ Len(answersByArea[a]) > 0
          /\ \A i \in 1..Len(answersByArea[a]) : answersByArea[a][i] = "null"

SelectionControls == {"domainCheckbox", "areaCheckbox", "selectAll", "deselectAll"}

\* C16 as stated: the selection state changes only through checkbox
\* toggles, select-all and deselect-all; every other wizard event, restart
\* included, leaves it unchanged.
C16_SelectionOnlyByControls ==
    [][lastEvent' \notin SelectionControls => selectionState' = selectionState]_vars

\* C16 amended: the selection state changes only through checkbox toggles,
\* select-all, deselect-all and restart, which sets it to
\* buildDefaultSelection(config) as renderSelection validates it; every
\* other wizard event leaves it unchanged.
C16_SelectionOnlyByControlsOrRestart ==
    [][/\ lastEvent' \notin SelectionControls \cup {"restart"} =>
             selectionState' = selectionState
       /\ lastEvent' = "restart" =>
             selectionState' =
                validateSelection(buildDefaultSelection(config)).state]_vars

\* C16 witness: the report has been rendered for a selection that leaves an
\* area out and that the start, the answers and the finish left as it was.
C16_Witness ==
    /\ lastEvent = "finishAssessment"
    /\ SomeAreaSelected
    /\ FlaggedAreaIds(config, selectionState) # AllAreaIds(config)
    /\ \E a \in DOMAIN answersByArea :
          \E i \in 1..Len(answersByArea[a]) : answersByArea[a][i] = "true"

\* the persisted answer slot holds the empty mapping
AnswerSlotEmpty(store) ==
    LS_ANSWERS \in DOMAIN store /\ store[LS_ANSWERS] = JSONstringify(EmptyObject)

\* C17 as stated: immediately after the restart handler the in-memory answer
\* state is empty and the persisted answer slot holds the empty mapping.
C17_RestartClearsAnswers ==
    lastEvent = "restart" =>
        answersByArea = EmptyObject /\ AnswerSlotEmpty(storage)

\* C17 amended: immediately after the restart handler the in-memory answer
\* state is empty, and the persisted answer slot holds the empty mapping
\* unless its write failed, in which case the slot is as it was before
\* (absent, when nothing was written to it yet).
C17_RestartClearsAnswersInMemory ==
    [][lastEvent' = "restart" =>
          /\ answersByArea' = EmptyObject
          /\ \/ AnswerSlotEmpty(storage')
             \/ /\ LS_ANSWERS \in DOMAIN storage <=> LS_ANSWERS \in DOMAIN storage'
                /\ LS_ANSWERS \in DOMAIN storage =>
                      storage'[LS_ANSWERS] = storage[LS_ANSWERS]]_vars

\* C17 witness: restart has run and emptied the answer state and the
\* organisation slot, while the write of the answer slot failed and left
\* the slot without the empty mapping.
C17_Witness ==
    /\ lastEvent = "restart"
    /\ answersByArea = EmptyObject
    /\ LS_ORGINFO \in DOMAIN storage
    /\ storage[LS_ORGINFO] = JSONstringify(EmptyObject)
    /\ ~AnswerSlotEmpty(storage)

\* C18: getSelectedDomains has no side effects: the configuration, each
\* domain's own areas list included, and the selection state are the same
\* after the runner or the report has called it, the filtered areas being
\* in copies of the domains; no other step changes the configuration.
C18_NoSideEffects ==
    [][/\ config' = config
       /\ lastEvent' \in {"startAssessment", "finishAssessment"} =>
             selectionState' = selectionState]_vars

\* C18 witness: the report was rendered with a domain whose filtered areas
\* list is shorter than the list the configuration holds for it.
C18_Witness ==
    /\ lastEvent = "finishAssessment"
    /\ \E i \in 1..Len(report.selectedDomains) :
          Len(report.selectedDomains[i].areas) <
             Len(DomainById(config, report.selectedDomains[i].id).areas)

\* what the answer state may hold for the areas in ids: nothing, or one
\* true, false or null per question of the area
EntriesFor(cfg, ids) ==
    {other \in UNION {[K -> UNION {[1..Len(AreaAt(cfg, PlaceOf(cfg, a)).questions)
                                       -> TriState] : a \in ids}] :
                      K \in SUBSET ids} :
        \A a \in DOMAIN other :
            Len(other[a]) = Len(AreaAt(cfg, PlaceOf(cfg, a)).questions)}

\* the answer states that agree with answers on every selected area and
\* hold anything, or nothing, for the other areas of the configuration
AnswersAgreeingOnSelected(cfg, sel, answers) ==
    LET selected == FlaggedAreaIds(cfg, sel)
        kept == DOMAIN answers \cap selected
    IN {[a \in kept \cup DOMAIN other |->
            IF a \in kept THEN answers[a] ELSE other[a]] :
        other \in EntriesFor(cfg, AllAreaIds(cfg) \ selected)}

\* C19: the report's overall score and per-domain scores are computed over
\* the selected areas only: any answer state that agrees with the current
\* one on every selected area gives the same scores, whatever it holds for
\* deselected areas.
C19_ReportIgnoresDeselected ==
    currentStep = "report" =>
        \A alt \in AnswersAgreeingOnSelected(config, selectionState, answersByArea) :
            LET other == renderReport(config, selectionState, alt)
            IN /\ other.overall = report.overall
               /\ other.domainScores = report.domainScores

\* C19 witness: the report shows a score above zero while a deselected area
\* holds a true answer.
C19_Witness ==
    /\ currentStep = "report"
    /\ submitStatus = "idle"
    /\ report.overall > 0
    /\ \E a \in DOMAIN answersByArea \ FlaggedAreaIds(config, selectionState) :
          \E i \in 1..Len(answersByArea[a]) : answersByArea[a][i] = "true"

-----------------------------------------------------------------------------
(* SpecEarly: the selection stage of the earlier selection flow, the        *)
(* create script that has no organisation step                              *)

\* change handler of a .domain-checkbox: selected follows the checkbox, the
\* area flags are set when it is checked and kept when it is unchecked
earlyDomainCheckboxChange(sel, domId, checked) ==
    [sel EXCEPT !.domains[domId] =
        [selected |-> checked,
         areas |-> [a \in DOMAIN @.areas |->
                      IF checked THEN TRUE ELSE @.areas[a]]]]

\* change handler of an .area-checkbox
earlyAreaCheckboxChange(sel, domId, areaId, checked) ==
    LET domSel == sel.domains[domId]
        areas == [a \in DOMAIN domSel.areas \cup {areaId} |->
                    IF a = areaId THEN checked ELSE domSel.areas[a]]
    IN [sel EXCEPT !.domains[domId] =
          [selected |-> Cardinality({a \in DOMAIN areas : areas[a]}) > 0,
           areas |-> areas]]

\* updateSelectionUI() once a handler has left sel: validateSelection, the
\* start button, saveLocal and renderSelection
UpdateSelectionUI(sel, ok) ==
    LET r == validateSelection(sel)
    IN /\ selectionState' = r.state
       /\ startDisabled' = ~r.ret
       /\ storage' = saveLocal(storage, LS_SELECTION, r.state, ok)
       /\ writeFailures' = writeFailures + Failed(ok)
       /\ domainCheckbox' = renderedDomainCheckboxes(config, r.state)

\* main() on an empty localStorage: renderSelection() without validation
InitEarly ==
    /\ config \in Configs
    /\ tieRoundsUp = TRUE
    /\ selectionState =
          loadLocal(EmptyObject, LS_SELECTION, buildDefaultSelection(config), TRUE)
    /\ answersByArea = loadLocal(EmptyObject, LS_ANSWERS, EmptyObject, TRUE)
    /\ domainCheckbox =
          renderedDomainCheckboxes(config, buildDefaultSelection(config))
    /\ orgInfo = NoOrgInfo
    /\ currentStep = "select"
    /\ storage = NoStorage
    /\ startDisabled = FALSE
    /\ writeFailures = 0
    /\ report = NoReport
    /\ payload = NoPayload
    /\ submitStatus = "idle"
    /\ stats = NoStats
    /\ lastEvent = "main"
    /\ input = Nothing
    /\ output = Nothing

EarlyDomainCheckboxChange ==
    /\ \E domId \in DomainIds(config), ok \in WriteOutcomes :
          UpdateSelectionUI(
              earlyDomainCheckboxChange(selectionState, domId,
                                        ~selectionState.domains[domId].selected),
              ok)
    /\ lastEvent' = "earlyDomainCheckbox"
    /\ UNCHANGED <<stats, config, tieRoundsUp, answersByArea, orgInfo, currentStep,
                   reportVars, input, output>>

EarlyAreaCheckboxChange ==
    /\ \E domain \in Range(config.domains), ok \in WriteOutcomes :
        \E areaId \in AreaIdsOf(domain) :
          UpdateSelectionUI(
              earlyAreaCheckboxChange(selectionState, domain.id, areaId,
                  ~Flag(selectionState.domains[domain.id], areaId)),
              ok)
    /\ lastEvent' = "earlyAreaCheckbox"
    /\ UNCHANGED <<stats, config, tieRoundsUp, answersByArea, orgInfo, currentStep,
                   reportVars, input, output>>

EarlySelectAll ==
    /\ \E ok \in WriteOutcomes :
          UpdateSelectionUI(buildDefaultSelection(config), ok)
    /\ lastEvent' = "earlySelectAll"
    /\ UNCHANGED <<stats, config, tieRoundsUp, answersByArea, orgInfo, currentStep,
                   reportVars, input, output>>

EarlyDeselectAll ==
    /\ \E ok \in WriteOutcomes : UpdateSelectionUI(deselectAll(config), ok)
    /\ lastEvent' = "earlyDeselectAll"
    /\ UNCHANGED <<stats, config, tieRoundsUp, answersByArea, orgInfo, currentStep,
                   reportVars, input, output>>

NextEarly ==
    \/ EarlyDomainCheckboxChange
    \/ EarlyAreaCheckboxChange
    \/ EarlySelectAll
    \/ EarlyDeselectAll

SpecEarly == InitEarly /\ [][NextEarly]_vars

\* C20: in the earlier selection flow, after every domain-checkbox or
\* area-checkbox change followed by updateSelectionUI, each domain has
\* selected == true iff at least one of its area flags is true; after
\* unchecking a domain none of its areas remains selected.
C20_EarlySelectedIffAnyArea ==
    lastEvent \in {"earlyDomainCheckbox", "earlyAreaCheckbox"} =>
        \A id \in DOMAIN selectionState.domains :
            selectionState.domains[id].selected
               <=> AnyArea(selectionState.domains[id])

-----------------------------------------------------------------------------
(* validateSelection: what a call leaves alone *)

\* the selection state the i-th call of validateSelection was given
StateBeforeCall(i) == IF i = 1 THEN input ELSE output[i - 1].state

\* C21: validateSelection changes nothing but selected flags, and those
\* only from true to false: the domain entries and the area entries are the
\* same after the call, every area flag has the value it had, and no
\* selected flag that was false is true.
C21_OnlyLowersSelected ==
    \A i \in 1..Len(output) :
        LET before == StateBeforeCall(i).domains
            after == output[i].state.domains
        IN /\ DOMAIN after = DOMAIN before
           /\ \A id \in DOMAIN before :
                 /\ after[id].areas = before[id].areas
                 /\ after[id].selected => before[id].selected

\* C21 witness: the call lowered the selected flag of a domain without a
\* flagged area and left false that of a domain with a flagged area.
C21_Witness ==
    /\ Len(output) >= 1
    /\ \E id \in DOMAIN input.domains :
          input.domains[id].selected /\ ~output[1].state.domains[id].selected
    /\ \E id \in DOMAIN input.domains :
          /\ ~input.domains[id].selected
          /\ AnyArea(input.domains[id])
          /\ ~output[1].state.domains[id].selected

-----------------------------------------------------------------------------
(* The runner's statistics *)

\* C22: in the runner, the displayed number of answered questions never
\* exceeds the displayed total number of questions, and the progress
\* percentage stays within 0..100, after any sequence of answering, going
\* back to the selection, changing it and starting the runner again.
C22_AnsweredWithinTotal ==
    currentStep = "runner" =>
        /\ stats.answered <= stats.total
        /\ stats.pct \in 0..100

-----------------------------------------------------------------------------
(* Submission: what a response does to the slots and to the wizard *)

SlotsPresent(store) == {SlotKeys[i] : i \in 1..Len(SlotKeys)} \cap DOMAIN store

\* the response arrived, is ok and has status 'success'
OkWithSuccess(response) ==
    response.fetched /\ response.ok /\ response.status = "success"

\* C23: submitToServer removes persisted slots only when the response is
\* ok with status 'success'; when the request fails or the server reports
\* an error no slot is removed, the in-memory selection, answers and
\* organisation info are unchanged, and the wizard stays on the report
\* step with its buttons back, so that the submission can be retried.
C23_SlotsRemovedOnSuccessOnly ==
    [][/\ lastEvent' \in {"submit", "redirect"} => storage' = storage
       /\ lastEvent' \in {"submitSucceeded", "submitFailed"} =>
             /\ storage' # storage => OkWithSuccess(input')
             /\ lastEvent' = "submitSucceeded" =>
                   OkWithSuccess(input') /\ SlotsPresent(storage') = {}
             /\ ~OkWithSuccess(input') =>
                   /\ storage' = storage
                   /\ selectionState' = selectionState
                   /\ answersByArea' = answersByArea
                   /\ orgInfo' = orgInfo
                   /\ currentStep' = "report"
                   /\ submitStatus' = "idle"]_vars

\* C23 witness: the server answered 'success' with a status code that is
\* not ok; the slots are still there and the report step is back to idle.
C23_Witness ==
    /\ lastEvent = "submitFailed"
    /\ input.fetched /\ ~input.ok /\ input.status = "success"
    /\ {LS_SELECTION, LS_ORGINFO} \subseteq SlotsPresent(storage)
    /\ currentStep = "report"
    /\ submitStatus = "idle"

====
